---- MODULE Spec2Model ----
(***************************************************************************)
(* Geography AI Tutor: the Streamlit session (app.py), the document        *)
(* processing pipeline (document_processor.py) and the RAG system          *)
(* (rag_system.py, plus the older copy of the class kept at the end of     *)
(* document_processor.py).                                                 *)
(*                                                                         *)
(* A text is a sequence of atoms.  "SP" and "NL" are the whitespace        *)
(* characters, every other atom is a run of non-whitespace characters.     *)
(* The empty Python string is << >>.  The external collaborators (PDF      *)
(* reader, embedding model, FAISS, the chat-completion service) are the    *)
(* inputs of the actions: whether each call succeeds and what it returns   *)
(* is drawn with \E.                                                       *)
(***************************************************************************)
EXTENDS Integers, Sequences, FiniteSets, TLC

\* ------------------------------------------------------------------ bounds
MaxPages == 2
MaxHistory == 2
MaxSegments == 2
MaxK == 3

\* ------------------------------------------------------- program constants
chunk_size == 1000
chunk_overlap == 200
RetrieverK == 4
LegacyDefaultK == 3
HistoryShown == 5
LabelOffset == 4

\* ------------------------------------------------------------------- texts
Whitespace == {"SP", "NL"}

SeqsUpTo(S, n) == UNION {[1..m -> S] : m \in 0..n}

RECURSIVE LStrip(_)
LStrip(t) ==
  IF t = << >> THEN << >>
  ELSE IF Head(t) \in Whitespace THEN LStrip(Tail(t)) ELSE t

RECURSIVE RStrip(_)
RStrip(t) ==
  IF t = << >> THEN << >>
  ELSE IF t[Len(t)] \in Whitespace THEN RStrip(SubSeq(t, 1, Len(t) - 1)) ELSE t

\* A strip that strips nothing (a faulty variant, for C1).
StripNothing(t) == t

\* str.strip()
Strip(t) == RStrip(LStrip(t))

\* Python truthiness of a str
Truthy(t) == t # << >>

\* ------------------------------------------------------------ the PDF file
\* What PdfReader finds on one call: the file may be unreadable, and the
\* extraction of page failAt may throw (failAt = 0: no page throws).
PageTexts == {<< >>, <<"soil">>}

PdfFiles ==
  {f \in [readable : BOOLEAN, pages : SeqsUpTo(PageTexts, MaxPages), failAt : 0..MaxPages] :
     /\ f.failAt <= Len(f.pages)
     /\ ~f.readable => (f.pages = << >>)}

RECURSIVE PagesText(_, _)
PagesText(pages, n) ==
  IF n = 0 THEN << >> ELSE PagesText(pages, n - 1) \o pages[n] \o <<"NL">>

\* An extraction that gives back the pages read before the throw (a faulty
\* variant, for C9).
ExtractKeepsPartialText(pdf) ==
  IF ~pdf.readable THEN << >>
  ELSE IF pdf.failAt # 0 THEN PagesText(pdf.pages, pdf.failAt - 1)
  ELSE PagesText(pdf.pages, Len(pdf.pages))

\* DocumentProcessor.extract_text_from_pdf: any exception gives "".
extract_text_from_pdf(pdf) ==
  IF ~pdf.readable \/ pdf.failAt # 0 THEN << >>
  ELSE PagesText(pdf.pages, Len(pdf.pages))

\* --------------------------------------------------------------- chunking
RECURSIVE Windows(_, _)
Windows(t, from) ==
  IF from + chunk_size - 1 >= Len(t) THEN <<SubSeq(t, from, Len(t))>>
  ELSE <<SubSeq(t, from, from + chunk_size - 1)>>
         \o Windows(t, from + chunk_size - chunk_overlap)

\* DocumentProcessor.split_text_into_chunks: the splitter strips each chunk
\* and drops empty ones; a text longer than chunk_size is cut in windows of
\* chunk_size that overlap by chunk_overlap.
split_text_into_chunks(text) ==
  IF Strip(text) = << >> THEN << >> ELSE Windows(Strip(text), 1)

\* ------------------------------------------------------------ vector store
NoIndex == [present |-> FALSE, docs |-> << >>]
IndexOf(docs) == [present |-> TRUE, docs |-> docs]

\* The embedding collaborator: a one-dimensional embedding of a text.
Embed(t) == Len(t)
Distance(a, b) == IF a >= b THEN a - b ELSE b - a

\* An indexer that keeps the segments embedded before the throw (a faulty
\* variant, for C8).
CreateKeepsPartialIndex(documents, embedFailAt) ==
  IF documents = << >> THEN NoIndex
  ELSE IF embedFailAt \in 1..Len(documents)
    THEN IndexOf(SubSeq(documents, 1, embedFailAt - 1))
  ELSE IndexOf(documents)

\* DocumentProcessor.create_vector_store: FAISS.from_documents embeds every
\* document; it throws on an empty list and when an embedding call fails
\* (embedFailAt names the document whose embedding fails, 0: none).
create_vector_store(documents, embedFailAt) ==
  IF documents = << >> \/ embedFailAt \in 1..Len(documents) THEN NoIndex
  ELSE IndexOf(documents)

\* The directory "vector_store": absent, intact, or left half-written.
NoDisk == [exists |-> FALSE, intact |-> FALSE, docs |-> << >>]
SaveOutcomes == {"ok", "fail_clean", "fail_partial"}

\* DocumentProcessor.save_vector_store: the exception of save_local is
\* swallowed; save_local may fail before or after it made the directory.
save_vector_store(vector_store, saveOutcome, disk) ==
  CASE saveOutcome = "ok" -> [exists |-> TRUE, intact |-> TRUE, docs |-> vector_store.docs]
    [] saveOutcome = "fail_partial" -> [exists |-> TRUE, intact |-> FALSE, docs |-> << >>]
    [] OTHER -> disk

\* The steps of one run are logged in order; a step that threw ends in "!"
\* ("embed!": an embedding call threw, "index!": FAISS threw on an empty list).
ExtractStep(pdf) == IF ~pdf.readable \/ pdf.failAt # 0 THEN "extract!" ELSE "extract"
EmbedStep(documents, embedFailAt) ==
  IF embedFailAt \in 1..Len(documents) THEN "embed!"
  ELSE IF documents = << >> THEN "index!" ELSE "embed"
PersistStep(saveOutcome) == IF saveOutcome = "ok" THEN "persist" ELSE "persist!"

\* process_document from line 92 on: a built index is saved and returned.
ProcessIndex(vector_store, trace, saveOutcome, disk) ==
  IF vector_store.present
    THEN [vector_store |-> vector_store,
          disk |-> save_vector_store(vector_store, saveOutcome, disk),
          trace |-> Append(trace, PersistStep(saveOutcome))]
    ELSE [vector_store |-> vector_store, disk |-> disk, trace |-> trace]

\* process_document from line 89 on: the index is made of the chunks.
ProcessChunks(documents, step, embedFailAt, saveOutcome, disk) ==
  ProcessIndex(create_vector_store(documents, embedFailAt),
               <<step, "chunk", EmbedStep(documents, embedFailAt)>>, saveOutcome, disk)

\* process_document from line 81 on: without text nothing more is done.
ProcessText(text, step, embedFailAt, saveOutcome, disk) ==
  IF ~Truthy(text)
    THEN [vector_store |-> NoIndex, disk |-> disk, trace |-> <<step>>]
    ELSE ProcessChunks(split_text_into_chunks(text), step, embedFailAt, saveOutcome, disk)

SwapFirstTwo(t) == IF Len(t) < 2 THEN t ELSE <<t[2], t[1]>> \o SubSeq(t, 3, Len(t))
SwappedSteps(r) == [r EXCEPT !.trace = SwapFirstTwo(@)]

\* A pipeline whose first two steps are taken in the other order (a faulty
\* variant, for C10).
ProcessChunksBeforeExtracting(pdf, embedFailAt, saveOutcome, disk) ==
  SwappedSteps(ProcessText(extract_text_from_pdf(pdf), ExtractStep(pdf), embedFailAt,
                           saveOutcome, disk))

\* DocumentProcessor.process_document(save_vector_store = True): the index
\* it returns, the directory it leaves and the steps it took.
process_document(pdf, embedFailAt, saveOutcome, disk) ==
  ProcessText(extract_text_from_pdf(pdf), ExtractStep(pdf), embedFailAt, saveOutcome, disk)

\* -------------------------------------------------- results and exceptions
ExcMsgs == {"e1", "e2"}
Return(v) == [raised |-> FALSE, value |-> v, exc |-> "none"]
Raise(e) == [raised |-> TRUE, value |-> << >>, exc |-> e]

\* -------------------------------------------------------- similarity search
\* The position of the document of docs nearest to q among those not in
\* taken; the earliest inserted one wins a tie.
NearestIdx(docs, q, taken) ==
  CHOOSE i \in (1..Len(docs)) \ taken :
    \A j \in (1..Len(docs)) \ taken :
      \/ Distance(Embed(docs[i]), Embed(q)) < Distance(Embed(docs[j]), Embed(q))
      \/ /\ Distance(Embed(docs[i]), Embed(q)) = Distance(Embed(docs[j]), Embed(q))
         /\ i <= j

RECURSIVE TopK(_, _, _, _)
TopK(docs, q, k, taken) ==
  IF k <= 0 \/ Cardinality(taken) >= Len(docs) THEN << >>
  ELSE LET i == NearestIdx(docs, q, taken)
       IN <<docs[i]>> \o TopK(docs, q, k - 1, taken \cup {i})

\* A search that gives the first k segments in the order of their insertion
\* (a faulty variant, for C13).
SearchInInsertionOrder(vector_store, q, k) ==
  SubSeq(vector_store.docs, 1, IF k <= Len(vector_store.docs) THEN k
                               ELSE Len(vector_store.docs))

\* FAISS.similarity_search(query, k) on a loaded index.
similarity_search(vector_store, q, k) == TopK(vector_store.docs, q, k, {})

\* ------------------------------------------------ rag_system.py, the class
NoRag == [some |-> FALSE, llm |-> FALSE, vector_store |-> NoIndex, qa_chain |-> FALSE]

\* What the collaborators do while one GeographyRAGSystem is constructed.
InitEnvs == [embedder : BOOLEAN, llm : BOOLEAN, load : BOOLEAN, chain : BOOLEAN]

\* GeographyRAGSystem._create_qa_chain: nothing without both parts.
create_qa_chain(vector_store, llm, chainOK) ==
  IF ~vector_store.present \/ ~llm THEN FALSE ELSE chainOK

\* GeographyRAGSystem._initialize_components: one try block around the
\* LLM, the load of the directory and the chain; an exception leaves the
\* fields assigned so far.
initialize_components(env, disk) ==
  IF ~env.llm
    THEN [some |-> TRUE, llm |-> FALSE, vector_store |-> NoIndex, qa_chain |-> FALSE]
  ELSE IF ~disk.exists
    THEN [some |-> TRUE, llm |-> TRUE, vector_store |-> NoIndex, qa_chain |-> FALSE]
  ELSE IF ~disk.intact \/ ~env.load
    THEN [some |-> TRUE, llm |-> TRUE, vector_store |-> NoIndex, qa_chain |-> FALSE]
  ELSE [some |-> TRUE, llm |-> TRUE, vector_store |-> IndexOf(disk.docs),
        qa_chain |-> create_qa_chain(IndexOf(disk.docs), TRUE, env.chain)]

\* The steps GeographyRAGSystem.__init__ takes, in order.
InitTrace(env, disk) ==
  IF ~env.embedder THEN <<"load_embedder!">>
  ELSE IF ~env.llm THEN <<"load_embedder", "init_llm!">>
  ELSE IF ~disk.exists THEN <<"load_embedder", "init_llm">>
  ELSE IF ~disk.intact \/ ~env.load THEN <<"load_embedder", "init_llm", "load_index!">>
  ELSE IF ~env.chain THEN <<"load_embedder", "init_llm", "load_index", "create_chain!">>
  ELSE <<"load_embedder", "init_llm", "load_index", "create_chain">>

\* GeographyRAGSystem.__init__: the embedding model is loaded outside any
\* try block, so its failure leaves the constructor by an exception.
GeographyRAGSystem(env, disk) ==
  IF ~env.embedder THEN Raise("e1") ELSE Return(initialize_components(env, disk))

\* GeographyRAGSystem.is_ready
is_ready(rag) == rag.vector_store.present /\ rag.qa_chain

\* A retrieval that throws where the code gives [] (a faulty variant, for C2).
RetrieveSearchesUnsetIndex(rag, q, k, searchOK) ==
  IF ~rag.vector_store.present \/ ~searchOK THEN Raise("e1")
  ELSE Return(similarity_search(rag.vector_store, q, k))

\* GeographyRAGSystem.retrieve_relevant_documents
retrieve_relevant_documents(rag, q, k, searchOK) ==
  IF ~rag.vector_store.present THEN Return(<< >>)
  ELSE IF ~searchOK THEN Return(<< >>)
  ELSE Return(similarity_search(rag.vector_store, q, k))

\* What one call of the QA chain meets: the retriever or the completion
\* service may throw (msg is the exception's text), else text is completed.
Completions == {<< >>, <<"completion">>}
ChainOutcomes ==
  {[kind |-> "ok", text |-> t, msg |-> "none"] : t \in Completions}
    \cup {[kind |-> k, text |-> << >>, msg |-> m] :
            k \in {"retrieve_raises", "complete_raises"}, m \in ExcMsgs}

NotInitialized ==
  <<"Sorry, the system is not properly initialized. Please check if the vector store exists.">>
Provenance ==
  <<"NL", "NL", "*This answer is based on NCERT Class 10 Geography textbook content.*">>
ErrorPrefix == "Error generating answer: "

\* The collaborator calls one answer_question makes, in order.
AnswerTrace(rag, out) ==
  IF ~rag.qa_chain THEN << >>
  ELSE IF out.kind = "retrieve_raises" THEN <<"search!">>
  ELSE IF out.kind = "complete_raises" THEN <<"search", "complete!">>
  ELSE <<"search", "complete">>

\* An answer_question without its try/except (a faulty variant, for C3).
AnswerLetsExceptionsThrough(rag, question, out) ==
  IF ~rag.qa_chain THEN Return(NotInitialized)
  ELSE IF out.kind # "ok" THEN Raise(out.msg)
  ELSE Return(out.text \o Provenance)

\* What self.qa_chain({"query": question}) gives back when nothing throws:
\* the completion and the segments its retriever found for the question.
NoQaResult == [some |-> FALSE, result |-> << >>, source_documents |-> << >>]
QaResult(rag, question, out) ==
  IF ~rag.qa_chain \/ out.kind # "ok" THEN NoQaResult
  ELSE [some |-> TRUE, result |-> out.text,
        source_documents |-> similarity_search(rag.vector_store, question, RetrieverK)]

\* An answer_question that adds the provenance sentence to every completion
\* (a faulty variant, for C12).
AnswerAlwaysWithProvenance(rag, question, out) ==
  IF ~rag.qa_chain THEN Return(NotInitialized)
  ELSE IF out.kind # "ok" THEN Return(<<ErrorPrefix, out.msg>>)
  ELSE Return(out.text \o Provenance)

\* GeographyRAGSystem.answer_question
answer_question(rag, question, out) ==
  IF ~rag.qa_chain THEN Return(NotInitialized)
  ELSE IF out.kind # "ok" THEN Return(<<ErrorPrefix, out.msg>>)
  ELSE LET source_docs == similarity_search(rag.vector_store, question, RetrieverK)
       IN IF source_docs # << >> THEN Return(out.text \o Provenance)
          ELSE Return(out.text)


\* ------------------- the older GeographyRAGSystem of document_processor.py
LegacyApology ==
  <<"I apologize, but I'm having trouble generating a response right now. Please try again.">>
LegacyNoContext == <<"No relevant information found in the geography textbook.">>

\* load_vector_store of the older class: a failed load is only printed.
legacy_load_vector_store(disk, loadOK) ==
  IF disk.exists /\ disk.intact /\ loadOK THEN IndexOf(disk.docs) ELSE NoIndex

\* retrieve_relevant_documents of the older class (returns the texts).
legacy_retrieve_relevant_documents(vector_store, q, k, searchOK) ==
  IF ~vector_store.present THEN Return(<< >>)
  ELSE IF ~searchOK THEN Return(<< >>)
  ELSE Return(similarity_search(vector_store, q, k))

RECURSIVE References(_, _)
References(docs, n) ==
  IF n = 0 THEN << >>
  ELSE References(docs, n - 1) \o <<"Reference ", ToString(n), ":", "NL">> \o docs[n]
         \o <<"NL", "NL">>

\* create_context of the older class
legacy_create_context(relevant_docs) ==
  IF relevant_docs = << >> THEN LegacyNoContext
  ELSE <<"Based on the NCERT Class 10 Geography textbook:", "NL", "NL">>
         \o References(relevant_docs, Len(relevant_docs))

\* generate_response of the older class: the completion's text, or the
\* fixed apology when the call throws.
legacy_generate_response(query, context, out) ==
  IF out.kind = "complete_raises" THEN Return(LegacyApology) ELSE Return(out.text)

\* answer_question of the older class (use_streaming = False).
legacy_answer_question(vector_store, query, searchOK, out) ==
  LET relevant_docs == legacy_retrieve_relevant_documents(vector_store, query,
                                                           LegacyDefaultK, searchOK).value
  IN legacy_generate_response(query, legacy_create_context(relevant_docs), out)

\* ----------------------------------------------------------------- app.py
\* current_question is a key of the session state that is often absent.
NoQuestion == [set |-> FALSE, text |-> << >>]
Staged(q) == [set |-> TRUE, text |-> q]

sample_questions ==
  << <<"What", "SP", "are", "SP", "renewable", "SP", "resources?">>,
     <<"Explain", "SP", "the", "SP", "importance", "SP", "of", "SP", "forests">> >>

SampleQuestions == {sample_questions[i] : i \in 1..Len(sample_questions)}

\* What a user can have in the question box.
Queries == {<< >>, <<"SP">>, <<"NL", "SP">>, <<"SP", "soil?", "NL">>} \cup SampleQuestions

\* initialize_session_state: the three keys get their defaults when absent.
initialize_session_state(ss) ==
  IF ss.started THEN ss
  ELSE [ss EXCEPT !.started = TRUE, !.rag_system = NoRag,
                  !.vector_store_ready = FALSE, !.chat_history = << >>]

\* What the collaborators do during one run of the script.
BuildEnvs ==
  {e \in [procEmbedder : BOOLEAN, pdf : PdfFiles, embedFailAt : 0..MaxSegments,
          saveOutcome : SaveOutcomes, init : InitEnvs] :
     e.embedFailAt <= Len(split_text_into_chunks(extract_text_from_pdf(e.pdf)))}
QuietInit == [embedder |-> TRUE, llm |-> TRUE, load |-> TRUE, chain |-> TRUE]
QuietSetup ==
  [procEmbedder |-> TRUE, pdf |-> [readable |-> FALSE, pages |-> << >>, failAt |-> 0],
   embedFailAt |-> 0, saveOutcome |-> "ok", init |-> QuietInit]
QuietChain == [kind |-> "ok", text |-> << >>, msg |-> "none"]

\* With the directory there, a setup meets only the collaborators of the
\* constructor of the RAG system.
SetupEnvs(disk) ==
  IF disk.exists THEN {[QuietSetup EXCEPT !.init = i] : i \in InitEnvs} ELSE BuildEnvs

\* setup_rag_system from line 80 on: r is what the constructor of the RAG
\* system gave; its exception is shown and None returned.
SetupRag(r, disk, trace, ui, build) ==
  [rag |-> IF r.raised THEN NoRag ELSE r.value, ready |-> TRUE, disk |-> disk,
   trace |-> trace, ui |-> ui \cup (IF r.raised THEN {"err_setup"} ELSE {}),
   build |-> build]

\* setup_rag_system, lines 71 to 76: p is what process_document gave.
SetupBuilt(p, env, ready) ==
  IF ~p.vector_store.present
    THEN [rag |-> NoRag, ready |-> ready, disk |-> p.disk,
          trace |-> <<"load_embedder">> \o p.trace,
          ui |-> {"warn_store_not_found", "err_process"}, build |-> TRUE]
    ELSE SetupRag(GeographyRAGSystem(env.init, p.disk), p.disk,
                  <<"load_embedder">> \o p.trace \o InitTrace(env.init, p.disk),
                  {"warn_store_not_found", "ok_processed"}, TRUE)

\* setup_rag_system: the RAG system or None, the vector_store_ready flag it
\* leaves, the directory, the steps taken and the messages shown.
setup_rag_system(env, disk, ready) ==
  IF ~disk.exists
    THEN IF ~env.procEmbedder
      THEN [rag |-> NoRag, ready |-> ready, disk |-> disk,
            trace |-> <<"load_embedder!">>,
            ui |-> {"warn_store_not_found", "err_setup"}, build |-> TRUE]
      ELSE SetupBuilt(process_document(env.pdf, env.embedFailAt, env.saveOutcome, disk),
                      env, ready)
    ELSE SetupRag(GeographyRAGSystem(env.init, disk), disk, InitTrace(env.init, disk),
                  {}, FALSE)

\* The widgets of the page: the sample buttons are drawn before the setup,
\* the question box and the two buttons only once the RAG system is there.
SidebarOnly == {"sample"}
FullPage == {"sample", "input", "ask", "clear"}

NoEvent == [kind |-> "none", text |-> << >>, k |-> 0, had |-> 0]
StartEvent == [kind |-> "start", text |-> << >>, k |-> 0, had |-> 0]
NotShown == 0 - 1
NoResult == [called |-> FALSE, raised |-> FALSE, value |-> << >>, exc |-> "none"]
Called(r) == [called |-> TRUE, raised |-> r.raised, value |-> r.value, exc |-> r.exc]

\* chat_history[-5:]
LastShown(h) ==
  SubSeq(h, IF Len(h) > HistoryShown THEN Len(h) - HistoryShown + 1 ELSE 1, Len(h))

\* display_chat_history: one expander for each of the last five pairs; its
\* title starts with "Q" and the number len(chat_history) - 4 + i, where i
\* counts the pairs shown from 0.
display_chat_history(h) ==
  [i \in 1..Len(LastShown(h)) |->
     [label |-> Len(h) - LabelOffset + (i - 1),
      question |-> LastShown(h)[i][1], answer |-> LastShown(h)[i][2]]]

\* The end of a run that drew the whole page.
PageDone(st, ss, trace, ui, result) ==
  [ss |-> ss, disk |-> st.disk, trace |-> st.trace \o trace, ui |-> st.ui \cup ui,
   rendered |-> FullPage, result |-> result, build |-> st.build,
   count |-> Len(ss.chat_history), expanders |-> display_chat_history(ss.chat_history),
   rerun |-> FALSE]

\* A history that takes the new pair at its head (a faulty variant, for C5).
AnsweredPutsNewestFirst(st, ss, question, res, trace) ==
  IF res.raised
    THEN PageDone(st, ss, trace, {"err_answer"}, Called(res))
    ELSE PageDone(st, [ss EXCEPT !.chat_history = <<<<question, res.value>>>> \o @],
                  trace, {"answer"}, Called(res))

\* main(), lines 180 to 195: res is what answer_question gave; an answer is
\* shown and appended to the history, an exception only shown.
MainAnswered(st, ss, question, res, trace) ==
  IF res.raised
    THEN PageDone(st, ss, trace, {"err_answer"}, Called(res))
    ELSE PageDone(st, [ss EXCEPT !.chat_history = Append(@, <<question, res.value>>)],
                  trace, {"answer"}, Called(res))

\* A clear that resets the whole session state (a faulty variant, for C6).
ClearDropsWholeSession(ss) == [ss EXCEPT !.chat_history = << >>, !.rag_system = NoRag]

\* main(), line 174: "Clear History" empties the history.
ClearedSession(ss) == [ss EXCEPT !.chat_history = << >>]

\* main(), lines 167 to 197, with the question of the box: the two buttons.
MainButtons(st, ss, ev, question, out) ==
  IF ev.kind = "clear"
    THEN [ss |-> ClearedSession(ss), disk |-> st.disk, trace |-> st.trace,
          ui |-> st.ui, rendered |-> {}, result |-> NoResult, build |-> st.build,
          count |-> NotShown, expanders |-> << >>, rerun |-> TRUE]
  ELSE IF ev.kind = "ask" /\ Truthy(Strip(question))
    THEN MainAnswered(st, ss, question, answer_question(ss.rag_system, question, out),
                      AnswerTrace(ss.rag_system, out))
  ELSE PageDone(st, ss, << >>, IF ev.kind = "ask" THEN {"warn_empty"} ELSE {}, NoResult)

\* A question box that leaves the staged question in the session state (a
\* faulty variant, for C16).
MainQuestionKeepsStaged(st, default_question, typed, ev, out) ==
  MainButtons(st, st.ss, ev,
              IF Truthy(default_question) /\ ~Truthy(Strip(typed))
                THEN default_question ELSE typed,
              out)

\* main(), lines 148 to 165: a staged sample question is taken out of the
\* session state and becomes the default of the question box; it also
\* stands in for a box that holds only whitespace.
MainQuestion(st, default_question, typed, ev, out) ==
  MainButtons(st, [st.ss EXCEPT !.current_question = NoQuestion], ev,
              IF Truthy(default_question) /\ ~Truthy(Strip(typed))
                THEN default_question ELSE typed,
              out)

\* main(), lines 138 to 165: without a RAG system the run ends here.
MainPage(st, ev, out) ==
  IF ~st.ss.rag_system.some
    THEN [ss |-> st.ss, disk |-> st.disk, trace |-> st.trace, ui |-> st.ui \cup {"err_init"},
          rendered |-> SidebarOnly, result |-> NoResult, build |-> st.build,
          count |-> NotShown, expanders |-> << >>, rerun |-> FALSE]
    ELSE MainQuestion(st,
                      IF st.ss.current_question.set THEN st.ss.current_question.text ELSE << >>,
                      IF ev.kind = "ask" THEN ev.text
                      ELSE IF st.ss.current_question.set THEN st.ss.current_question.text
                      ELSE << >>,
                      ev, out)

\* main(), line 136: what setup_rag_system gave goes into the session state.
SetupDone(ss, su) ==
  [ss |-> [ss EXCEPT !.rag_system = su.rag, !.vector_store_ready = su.ready],
   disk |-> su.disk, trace |-> su.trace, ui |-> su.ui, build |-> su.build]

\* A main that sets the RAG system up in the first run only (a faulty
\* variant, for C7).
MainBodySetsUpOnlyAtStart(ss, disk, ev, env, out) ==
  IF ~ss.rag_system.some /\ ev.kind = "start"
    THEN MainPage(SetupDone(ss, setup_rag_system(env, disk, ss.vector_store_ready)), ev, out)
    ELSE MainPage([ss |-> ss, disk |-> disk, trace |-> << >>, ui |-> {}, build |-> FALSE],
                  ev, out)

\* A main that sets the RAG system up in every run (a faulty variant, for
\* C11).
MainBodySetsUpEveryRun(ss, disk, ev, env, out) ==
  MainPage(SetupDone(ss, setup_rag_system(env, disk, ss.vector_store_ready)), ev, out)

\* main() from the setup on (line 133), for a session whose keys are set, up
\* to its end or to st.rerun(). ev is the widget event that caused the run.
MainBody(ss, disk, ev, env, out) ==
  IF ~ss.rag_system.some
    THEN MainPage(SetupDone(ss, setup_rag_system(env, disk, ss.vector_store_ready)), ev, out)
    ELSE MainPage([ss |-> ss, disk |-> disk, trace |-> << >>, ui |-> {}, build |-> FALSE],
                  ev, out)

\* The run that follows st.rerun(), joined to the run it abandoned.
Joined(r, again) ==
  [again EXCEPT !.trace = r.trace \o again.trace, !.build = r.build \/ again.build]

RerunIfAsked(r, env, out) ==
  IF r.rerun THEN Joined(r, MainBody(r.ss, r.disk, NoEvent, env, out)) ELSE r

\* st.rerun() abandons the run and starts the script again without an event.
MainFromSetup(ss, disk, ev, env, out) ==
  RerunIfAsked(MainBody(ss, disk, ev, env, out), env, out)

\* A click on a sample button stages the question (line 131).
StageSample(ss, ev) ==
  IF ev.kind = "sample" THEN [ss EXCEPT !.current_question = Staged(ev.text)] ELSE ss

\* main(): one run of the script.
Main(ss, disk, ev, env, out) ==
  MainFromSetup(StageSample(initialize_session_state(ss), ev), disk, ev, env, out)

\* ---------------------------------------------------------- test_system.py
\* test_document_processing from line 43 on.
TestIndex(vector_store, trace, env, disk) ==
  IF ~vector_store.present THEN [ok |-> FALSE, disk |-> disk, trace |-> trace]
  ELSE [ok |-> TRUE, disk |-> save_vector_store(vector_store, env.saveOutcome, disk),
        trace |-> Append(trace, PersistStep(env.saveOutcome))]

\* test_document_processing from line 39 on.
TestChunks(documents, env, disk) ==
  TestIndex(create_vector_store(documents, env.embedFailAt),
            <<"load_embedder", ExtractStep(env.pdf), "chunk",
              EmbedStep(documents, env.embedFailAt)>>, env, disk)

\* test_document_processing from line 32 on.
TestText(text, env, disk) ==
  IF ~Truthy(text)
    THEN [ok |-> FALSE, disk |-> disk, trace |-> <<"load_embedder", ExtractStep(env.pdf)>>]
    ELSE TestChunks(split_text_into_chunks(text), env, disk)

\* test_document_processing: the pipeline called step by step; it reports
\* failure when the file is missing, the processor cannot be made, no text
\* comes out or no index is built; it does not look at how the save went.
test_document_processing(env, disk) ==
  IF ~env.pdf.readable THEN [ok |-> FALSE, disk |-> disk, trace |-> << >>]
  ELSE IF ~env.procEmbedder
    THEN [ok |-> FALSE, disk |-> disk, trace |-> <<"load_embedder!">>]
  ELSE TestText(extract_text_from_pdf(env.pdf), env, disk)

\* test_rag_system, line 69: the constructor's exception ends the script.
TestRag(r, disk, trace, build) ==
  [rag |-> IF r.raised THEN NoRag ELSE r.value, disk |-> disk, trace |-> trace,
   build |-> build]

\* main() of the test script after the document test gave dp.
TestAfterDocs(dp, env) ==
  IF ~dp.ok THEN [rag |-> NoRag, disk |-> dp.disk, trace |-> dp.trace, build |-> TRUE]
  ELSE TestRag(GeographyRAGSystem(env.init, dp.disk), dp.disk,
               dp.trace \o InitTrace(env.init, dp.disk), TRUE)

\* main() of the test script up to the construction of the RAG system in
\* test_rag_system: the document test runs only without a directory, and
\* the script exits when a step reports failure.
test_main(env, disk) ==
  IF ~disk.exists THEN TestAfterDocs(test_document_processing(env, disk), env)
  ELSE TestRag(GeographyRAGSystem(env.init, disk), disk, InitTrace(env.init, disk), FALSE)

\* ------------------------------------------------------------------- state
VARIABLES
  disk,               \* the directory "vector_store"
  started,            \* the session state holds its three keys
  rag_system,         \* st.session_state.rag_system
  vector_store_ready, \* st.session_state.vector_store_ready
  chat_history,       \* st.session_state.chat_history
  current_question,   \* st.session_state.current_question
  rendered,           \* the widgets the last run of the script drew
  test_rag,           \* the RAG system of a running test script
  event,              \* what caused the last step (had: the history's length before it)
  trace,              \* the collaborator calls of the last step, in order
  ui,                 \* the messages the last run of the script showed
  result,             \* what the answer or retrieve call of the last step gave
  built,              \* the last step entered the build of the index
  count,              \* the "Questions Asked" metric the last run showed
  expanders,          \* the expanders of the history the last run drew
  qa_result           \* what the QA chain gave back in the last step

vars ==
  <<disk, started, rag_system, vector_store_ready, chat_history, current_question,
    rendered, test_rag, event, trace, ui, result, built, count, expanders, qa_result>>

Session ==
  [started |-> started, rag_system |-> rag_system,
   vector_store_ready |-> vector_store_ready, chat_history |-> chat_history,
   current_question |-> current_question]

\* A directory found at the start was written by an earlier build (whole
\* or broken off), so an intact one holds at least one segment.
SegmentTexts == {<<"soil">>, <<"soil", "NL", "soil">>}
StoredIndexes == SeqsUpTo(SegmentTexts, MaxSegments) \ {<< >>}
InitDisks ==
  {NoDisk, [exists |-> TRUE, intact |-> FALSE, docs |-> << >>]}
    \cup {[exists |-> TRUE, intact |-> TRUE, docs |-> d] : d \in StoredIndexes}

Init ==
  /\ disk \in InitDisks
  /\ started = FALSE
  /\ rag_system = NoRag
  /\ vector_store_ready = FALSE
  /\ chat_history = << >>
  /\ current_question = NoQuestion
  /\ rendered = {}
  /\ test_rag = NoRag
  /\ event = [kind |-> "init", text |-> << >>, k |-> 0, had |-> 0]
  /\ trace = << >>
  /\ ui = {}
  /\ result = NoResult
  /\ built = FALSE
  /\ count = NotShown
  /\ expanders = << >>
  /\ qa_result = NoQaResult

\* The state after one run of the script.
AfterRun(r, ev) ==
  /\ disk' = r.disk
  /\ started' = r.ss.started
  /\ rag_system' = r.ss.rag_system
  /\ vector_store_ready' = r.ss.vector_store_ready
  /\ chat_history' = r.ss.chat_history
  /\ current_question' = r.ss.current_question
  /\ rendered' = r.rendered
  /\ event' = ev
  /\ trace' = r.trace
  /\ ui' = r.ui
  /\ result' = r.result
  /\ built' = r.build
  /\ count' = r.count
  /\ expanders' = r.expanders
  /\ UNCHANGED test_rag

\* The first run of the script in a session.
Startup ==
  /\ ~started
  /\ ~test_rag.some
  /\ \E env \in SetupEnvs(disk) :
       AfterRun(Main(Session, disk, StartEvent, env, QuietChain), StartEvent)
  /\ qa_result' = NoQaResult

\* A later run while the RAG system is still None: only the sample buttons
\* are on the page.
RetryRun ==
  /\ started
  /\ ~rag_system.some
  /\ \E ev \in {NoEvent} \cup {[kind |-> "sample", text |-> q, k |-> 0, had |-> 0] :
                                q \in SampleQuestions} :
       \E env \in SetupEnvs(disk) :
         AfterRun(Main(Session, disk, ev, env, QuietChain), ev)
  /\ qa_result' = NoQaResult

\* A run without a click (the text of the question box changed).
Rerun ==
  /\ started
  /\ rag_system.some
  /\ AfterRun(Main(Session, disk, NoEvent, QuietSetup, QuietChain),
              [NoEvent EXCEPT !.had = Len(chat_history)])
  /\ qa_result' = NoQaResult

\* A click on a sample button.
SampleClick ==
  /\ rag_system.some
  /\ "sample" \in rendered
  /\ \E q \in SampleQuestions :
       LET ev == [kind |-> "sample", text |-> q, k |-> 0, had |-> Len(chat_history)]
       IN AfterRun(Main(Session, disk, ev, QuietSetup, QuietChain), ev)
  /\ qa_result' = NoQaResult

\* A click on "Ask Question" with text in the question box.
Ask ==
  /\ "ask" \in rendered
  /\ Len(chat_history) < MaxHistory
  /\ \E text \in Queries, out \in ChainOutcomes :
       LET ev == [kind |-> "ask", text |-> text, k |-> 0, had |-> Len(chat_history)]
       IN /\ AfterRun(Main(Session, disk, ev, QuietSetup, out), ev)
          /\ qa_result' = IF result'.called THEN QaResult(rag_system, text, out)
                          ELSE NoQaResult

\* A click on "Clear History".
ClearHistory ==
  /\ "clear" \in rendered
  /\ LET ev == [kind |-> "clear", text |-> << >>, k |-> 0, had |-> Len(chat_history)]
     IN AfterRun(Main(Session, disk, ev, QuietSetup, QuietChain), ev)
  /\ qa_result' = NoQaResult

\* The session ends (the page is reloaded or the process restarted): the
\* session state is gone, the directory stays.
NewSession ==
  /\ started
  /\ started' = FALSE
  /\ rag_system' = NoRag
  /\ vector_store_ready' = FALSE
  /\ chat_history' = << >>
  /\ current_question' = NoQuestion
  /\ rendered' = {}
  /\ event' = [kind |-> "new_session", text |-> << >>, k |-> 0, had |-> 0]
  /\ trace' = << >>
  /\ ui' = {}
  /\ result' = NoResult
  /\ built' = FALSE
  /\ count' = NotShown
  /\ expanders' = << >>
  /\ qa_result' = NoQaResult
  /\ UNCHANGED <<disk, test_rag>>

AppIdle ==
  UNCHANGED <<started, rag_system, vector_store_ready, chat_history, current_question,
              rendered, ui, count, expanders>>

AfterTestInit(r) ==
  /\ test_rag' = r.rag
  /\ disk' = r.disk
  /\ trace' = r.trace
  /\ built' = r.build

\* The test script starts while no session of the app runs.
TestInit ==
  /\ ~started
  /\ ~test_rag.some
  /\ \E env \in SetupEnvs(disk) : AfterTestInit(test_main(env, disk))
  /\ event' = [kind |-> "test_init", text |-> << >>, k |-> 0, had |-> 0]
  /\ result' = NoResult
  /\ qa_result' = NoQaResult
  /\ AppIdle

\* test_rag_system calls retrieve_relevant_documents; k is the caller's.
TestRetrieve ==
  /\ test_rag.some
  /\ \E q \in Queries, k \in 1..MaxK, searchOK \in BOOLEAN :
       /\ result' = Called(retrieve_relevant_documents(test_rag, q, k, searchOK))
       /\ event' = [kind |-> "retrieve", text |-> q, k |-> k, had |-> 0]
       /\ trace' = IF ~test_rag.vector_store.present THEN << >>
                   ELSE IF searchOK THEN <<"search">> ELSE <<"search!">>
  /\ qa_result' = NoQaResult
  /\ built' = FALSE
  /\ UNCHANGED <<disk, test_rag>>
  /\ AppIdle

\* test_rag_system calls answer_question.
TestAnswer ==
  /\ test_rag.some
  /\ \E q \in Queries, out \in ChainOutcomes :
       /\ result' = Called(answer_question(test_rag, q, out))
       /\ event' = [kind |-> "answer", text |-> q, k |-> 0, had |-> 0]
       /\ trace' = AnswerTrace(test_rag, out)
       /\ qa_result' = QaResult(test_rag, q, out)
  /\ built' = FALSE
  /\ UNCHANGED <<disk, test_rag>>
  /\ AppIdle

\* The test script ends.
TestExit ==
  /\ test_rag.some
  /\ test_rag' = NoRag
  /\ event' = [kind |-> "test_exit", text |-> << >>, k |-> 0, had |-> 0]
  /\ trace' = << >>
  /\ result' = NoResult
  /\ qa_result' = NoQaResult
  /\ built' = FALSE
  /\ UNCHANGED disk
  /\ AppIdle

\* The steps of the older class: the load in its constructor, the search.
LegacyLoadTrace(d, loadOK) ==
  IF ~d.exists THEN << >>
  ELSE IF d.intact /\ loadOK THEN <<"load_index">> ELSE <<"load_index!">>
LegacySearchTrace(vector_store, searchOK) ==
  IF ~vector_store.present THEN << >>
  ELSE IF searchOK THEN <<"search">> ELSE <<"search!">>

\* The older class run as a script: it loads the directory and answers one
\* question.
LegacyMain ==
  /\ ~started
  /\ ~test_rag.some
  /\ \E q \in Queries, loadOK \in BOOLEAN, searchOK \in BOOLEAN, out \in ChainOutcomes :
       /\ out.kind # "retrieve_raises"
       /\ result' = Called(legacy_answer_question(legacy_load_vector_store(disk, loadOK),
                                                  q, searchOK, out))
       /\ event' = [kind |-> "legacy", text |-> q, k |-> 0, had |-> 0]
       /\ trace' = LegacyLoadTrace(disk, loadOK)
                     \o LegacySearchTrace(legacy_load_vector_store(disk, loadOK), searchOK)
                     \o <<IF out.kind = "complete_raises" THEN "complete!" ELSE "complete">>
  /\ qa_result' = NoQaResult
  /\ built' = FALSE
  /\ UNCHANGED <<disk, test_rag>>
  /\ AppIdle

\* retrieve_relevant_documents of the older class, on a fresh object.
LegacyRetrieve ==
  /\ ~started
  /\ ~test_rag.some
  /\ \E q \in Queries, k \in 1..MaxK, loadOK \in BOOLEAN, searchOK \in BOOLEAN :
       /\ result' = Called(legacy_retrieve_relevant_documents(
                              legacy_load_vector_store(disk, loadOK), q, k, searchOK))
       /\ event' = [kind |-> "legacy_retrieve", text |-> q, k |-> k, had |-> 0]
       /\ trace' = LegacyLoadTrace(disk, loadOK)
                     \o LegacySearchTrace(legacy_load_vector_store(disk, loadOK), searchOK)
  /\ qa_result' = NoQaResult
  /\ built' = FALSE
  /\ UNCHANGED <<disk, test_rag>>
  /\ AppIdle

\* A RAG system whose loaded index holds no segment: this program never
\* writes such an index, a directory made by other means can hold one.
EmptyIndexRag ==
  [some |-> TRUE, llm |-> TRUE, vector_store |-> IndexOf(<< >>), qa_chain |-> TRUE]

\* answer_question called on such an object: its retriever finds nothing.
AnswerOnEmptyIndex ==
  /\ ~started
  /\ ~test_rag.some
  /\ \E q \in Queries, out \in ChainOutcomes :
       /\ result' = Called(answer_question(EmptyIndexRag, q, out))
       /\ event' = [kind |-> "answer_call", text |-> q, k |-> 0, had |-> 0]
       /\ trace' = AnswerTrace(EmptyIndexRag, out)
       /\ qa_result' = QaResult(EmptyIndexRag, q, out)
  /\ built' = FALSE
  /\ UNCHANGED <<disk, test_rag>>
  /\ AppIdle

Next ==
  \/ Startup
  \/ RetryRun
  \/ Rerun
  \/ SampleClick
  \/ Ask
  \/ ClearHistory
  \/ NewSession
  \/ TestInit
  \/ TestRetrieve
  \/ TestAnswer
  \/ TestExit
  \/ LegacyMain
  \/ LegacyRetrieve
  \/ AnswerOnEmptyIndex

Spec == Init /\ [][Next]_vars


\* ------------------------------------------------------------------ claims
Range(t) == {t[i] : i \in 1..Len(t)}

\* The text is empty or holds only whitespace.
Blank(t) == \A i \in 1..Len(t) : t[i] \in Whitespace

\* The click was on a button of the app's page or the script just ran.
AppKinds == {"start", "none", "sample", "ask", "clear"}

\* The text holds the text of an exception.
HasExceptionText(t) == \E i \in 1..Len(t) : t[i] \in ExcMsgs

\* The build steps of a run, in the order they were taken.
IsBuildStep(s) ==
  s \in {"extract", "extract!", "chunk", "embed", "embed!", "index!", "persist", "persist!"}
BuildSteps(t) == SelectSeq(t, IsBuildStep)
Stages ==
  <<{"extract", "extract!"}, {"chunk"}, {"embed", "embed!", "index!"}, {"persist", "persist!"}>>
InPipelineOrder(t) ==
  /\ Len(BuildSteps(t)) <= Len(Stages)
  /\ \A i \in 1..Len(BuildSteps(t)) : BuildSteps(t)[i] \in Stages[i]

\* C1: a click on "Ask Question" with a question that is empty or only
\* whitespace is turned down on the spot: the run calls no collaborator
\* (no search, no embedding, no completion), answers nothing and leaves
\* the history as it was.
C1_BlankAskRejected ==
  [][(event'.kind = "ask" /\ Blank(event'.text))
       => /\ chat_history' = chat_history
          /\ trace' = << >>
          /\ ~result'.called
          /\ "warn_empty" \in ui']_vars

C1_Witness ==
  /\ event.kind = "ask"
  /\ event.text # << >>
  /\ Blank(event.text)
  /\ chat_history # << >>
  /\ "warn_empty" \in ui

\* C2: retrieve_relevant_documents (of both classes) gives the empty
\* sequence and throws nothing, for every query and k, when the index is
\* unset (the directory is missing or did not load) and when the similarity
\* search throws.
C2_RetrieveEmptyWithoutIndex ==
  /\ (event.kind = "retrieve" /\ (~test_rag.vector_store.present \/ "search!" \in Range(trace)))
       => (result.called /\ ~result.raised /\ result.value = << >>)
  /\ (event.kind = "legacy_retrieve"
        /\ ("load_index" \notin Range(trace) \/ "search!" \in Range(trace)))
       => (result.called /\ ~result.raised /\ result.value = << >>)

C2_Witness ==
  /\ event.kind = "retrieve"
  /\ test_rag.some
  /\ ~test_rag.vector_store.present
  /\ disk.exists
  /\ result.called

\* The last step of the run.
LastStep(t) == IF t = << >> THEN "" ELSE t[Len(t)]

C4_FailureMessageIsGeneric ==
  (event.kind \in {"ask", "answer"} /\ "complete!" \in Range(trace))
    => (result.called /\ ~result.raised /\ ~HasExceptionText(result.value))

\* C5: a click on "Ask Question" with a question that is not blank, answered
\* or failed inside answer_question, puts exactly the pair (question, answer)
\* at the end of the history, leaves the entries before it as they were and
\* in their order, and draws the whole page again (the session is ready).
C5_AskAppendsOnePair ==
  [][(event'.kind = "ask" /\ ~Blank(event'.text))
       => /\ result'.called /\ ~result'.raised
          /\ chat_history' = Append(chat_history, <<event'.text, result'.value>>)
          /\ rendered' = FullPage
          /\ rag_system' = rag_system
          /\ count' = Len(chat_history) + 1]_vars

C5_Witness ==
  /\ event.kind = "ask"
  /\ event.had >= 1
  /\ Len(chat_history) = event.had + 1
  /\ "complete!" \in Range(trace)
  /\ chat_history[1] # chat_history[Len(chat_history)]

\* C6: "Clear History" empties the whole history, the page then shows
\* "Questions Asked" 0 and is whole again, and the directory, the RAG system
\* and the vector_store_ready flag are as before; no collaborator is called.
C6_ClearOnlyEmptiesHistory ==
  [][(event'.kind = "clear")
       => /\ chat_history' = << >>
          /\ count' = 0
          /\ rendered' = FullPage
          /\ rag_system' = rag_system
          /\ vector_store_ready' = vector_store_ready
          /\ disk' = disk
          /\ trace' = << >>]_vars

C6_Witness ==
  /\ event.kind = "clear"
  /\ event.had = MaxHistory
  /\ chat_history = << >>
  /\ count = 0
  /\ is_ready(rag_system)
  /\ vector_store_ready

\* The session has run the script and holds no RAG system.
InErrorState == started /\ ~rag_system.some

\* C7 as stated: after a failed build at the start the session stays in the
\* error state and no later run of the script tries the build again.
C7_ErrorStateIsFinal ==
  [][(InErrorState /\ built /\ started') => (InErrorState' /\ ~built')]_vars

\* C7 as amended: a session without RAG system shows the failure and only
\* the sidebar; every later run of the script (a plain rerun or a click on a
\* sample button) tries the setup again, with the build when the directory
\* is missing, and the session is in the error state afterwards exactly when
\* that try gave no RAG system.
C7_ErrorStateRetriesSetup ==
  [][(InErrorState /\ started')
       => /\ event'.kind \in {"none", "sample"}
          /\ trace' # << >>
          /\ built' = ~disk.exists
          /\ InErrorState' => ("err_init" \in ui' /\ rendered' = SidebarOnly)
          /\ ~InErrorState' => (rendered' = FullPage /\ vector_store_ready')]_vars

C7_Witness ==
  /\ event.kind \in {"none", "sample"}
  /\ built
  /\ rag_system.some
  /\ is_ready(rag_system)
  /\ "ok_processed" \in ui

\* C8: the build is all or nothing: when an embedding call throws while the
\* index is made of the segments, no index comes back (the app shows the
\* failure and has no RAG system, the test script ends) and the directory
\* is as before, no save being tried.
C8_BuildAllOrNothing ==
  [][("embed!" \in Range(trace'))
       => /\ disk' = disk
          /\ ~disk'.exists
          /\ {"persist", "persist!"} \cap Range(trace') = {}
          /\ ~rag_system'.some
          /\ ~test_rag'.some
          /\ event'.kind \in AppKinds => "err_process" \in ui']_vars

C8_Witness ==
  /\ event.kind = "start"
  /\ trace = <<"load_embedder", "extract", "chunk", "embed!">>
  /\ ~disk.exists
  /\ "err_process" \in ui

\* C9: when the extraction throws, extract_text_from_pdf gives "" and is not
\* called again, and the run stops before chunking and indexing: no index
\* comes back and the directory is as before.
C9_ExtractionFailureStopsBuild ==
  [][("extract!" \in Range(trace'))
       => /\ trace' = <<"load_embedder", "extract!">>
          /\ disk' = disk
          /\ ~rag_system'.some
          /\ ~test_rag'.some
          /\ event'.kind \in AppKinds => "err_process" \in ui']_vars

C9_Witness ==
  /\ event.kind = "start"
  /\ trace = <<"load_embedder", "extract!">>
  /\ ~disk.exists
  /\ InErrorState

\* C10: at the start of a session (and of the test script) the build runs
\* if and only if the directory is missing; its steps come in the order
\* extract, chunk, embed/index, persist, each only after the one before; with
\* the directory there nothing is extracted, chunked or written.
C10_BuildIffNoDirectory ==
  [][(event'.kind \in {"start", "test_init"})
       => /\ built' = ~disk.exists
          /\ InPipelineOrder(trace')
          /\ disk.exists => (BuildSteps(trace') = << >> /\ disk' = disk)
          /\ disk' # disk => "persist" \in Range(trace') \/ "persist!" \in Range(trace')]_vars

C10_Witness ==
  /\ event.kind = "start"
  /\ built
  /\ BuildSteps(trace) = <<"extract", "chunk", "embed", "persist">>
  /\ disk.exists /\ disk.intact
  /\ is_ready(rag_system)


\* The clicks and reruns of the app's page after its first run.
LaterKinds == {"none", "sample", "ask", "clear"}

\* C11: the index is written only by the build: the directory changes only
\* in a run that entered the build (there was no directory) and reached the
\* save; every run of the script in a session that has its RAG system
\* (rerun, sample button, Ask, Clear History) and every retrieve and answer
\* call leave the directory and the index in memory as they were.
C11_IndexWrittenOnlyByBuild ==
  [][/\ disk' # disk
          => (built' /\ ~disk.exists /\ {"persist", "persist!"} \cap Range(trace') # {})
     /\ (rag_system.some /\ event'.kind \in LaterKinds)
          => (disk' = disk /\ rag_system'.vector_store = rag_system.vector_store /\ ~built')
     /\ event'.kind \in {"retrieve", "answer"}
          => (disk' = disk /\ test_rag'.vector_store = test_rag.vector_store)]_vars

C11_Witness ==
  /\ event.kind = "ask"
  /\ trace = <<"search", "complete">>
  /\ rag_system.vector_store.present
  /\ disk.exists /\ disk.intact
  /\ rag_system.vector_store.docs = disk.docs
  /\ Len(disk.docs) = MaxSegments


\* A call of answer_question of rag_system.py.
AnswerKinds == {"ask", "answer", "answer_call"}

\* C12: when the QA chain gives its result without throwing, answer_question
\* returns the completion as it is, followed by the fixed provenance sentence
\* exactly when the chain's retriever found at least one segment; with no
\* segment found the completion comes back unchanged.
C12_ProvenanceIffSegments ==
  (event.kind \in AnswerKinds /\ qa_result.some)
    => /\ result.called /\ ~result.raised
       /\ qa_result.source_documents # << >>
            => result.value = qa_result.result \o Provenance
       /\ qa_result.source_documents = << >> => result.value = qa_result.result

C12_Witness ==
  /\ event.kind = "answer_call"
  /\ qa_result.some
  /\ qa_result.source_documents = << >>
  /\ qa_result.result # << >>
  /\ result.value = qa_result.result


\* The index a retrieve call of the last step searched, if it had one.
SearchedIndex ==
  IF event.kind = "retrieve" THEN test_rag.vector_store
  ELSE IF event.kind = "legacy_retrieve" /\ "load_index" \in Range(trace) THEN IndexOf(disk.docs)
  ELSE NoIndex

\* The results are k segments of the index, nearest to the query first.
KNearest(res, docs, q, k) ==
  /\ Len(res) = k
  /\ \A i \in 1..Len(res) : res[i] \in Range(docs)
  /\ \A i \in 1..(Len(res) - 1) :
       Distance(Embed(res[i]), Embed(q)) <= Distance(Embed(res[i + 1]), Embed(q))

C14_ReadyFlagMeansReady ==
  (started /\ rag_system.some /\ vector_store_ready) => is_ready(rag_system)

\* The expanders are the last min(5, n) pairs of the history in their order,
\* each numbered with its position in the whole history.
ShowsLastWithPositions(shown, h) ==
  /\ Len(shown) = (IF Len(h) < HistoryShown THEN Len(h) ELSE HistoryShown)
  /\ \A i \in 1..Len(shown) :
       /\ shown[i].question = h[Len(h) - Len(shown) + i][1]
       /\ shown[i].answer = h[Len(h) - Len(shown) + i][2]
       /\ shown[i].label = Len(h) - Len(shown) + i

\* C15: a page drawn with a history of n >= 1 pairs shows its last min(5, n)
\* pairs in the order of their insertion, and the number in the label
\* "Q<number>" of each is its position (from 1) in the whole history.
C15_LabelsArePositions ==
  (rendered = FullPage /\ chat_history # << >>)
    => ShowsLastWithPositions(expanders, chat_history)


\* The steps of retrieving for and answering a question.
AnswerSteps == {"search", "search!", "complete", "complete!"}

====
